---- MODULE Spec2Model ----
(***************************************************************************)
(* OverboardTodosApp: the token issuance / verification protocol, the      *)
(* credential verifier, the Google OAuth callback and the request handlers *)
(* that sit on top of them (src/app).                                      *)
(*                                                                         *)
(* Strings are TLA+ strings.  Optional values (Python's None) are          *)
(* sequences of length 0 or 1: None == <<>>, Some(x) == <<x>>.             *)
(* A Python dict is a record whose domain is the set of keys present.      *)
(* Time is counted in whole seconds of true UTC since an arbitrary start.  *)
(***************************************************************************)
EXTENDS Integers, Sequences, FiniteSets, TLC

\* ------------------------------------------------------------------ bounds
\* how many times the clock is advanced in one behaviour
MaxTicks == 2
\* how many access/refresh token pairs the server issues in one behaviour
MaxPairs == 2
\* how many requests are in flight at once
MaxRequests == 3

\* ------------------------------------------------------- program constants
\* timedelta(minutes=30), in seconds
ACCESS_TOKEN_EXPIRE == 1800
\* timedelta(days=7), in seconds
REFRESH_TOKEN_EXPIRE == 604800
HTTP_200_OK == 200
HTTP_201_CREATED == 201
HTTP_204_NO_CONTENT == 204
HTTP_302_FOUND == 302
HTTP_400_BAD_REQUEST == 400
HTTP_401_UNAUTHORIZED == 401
HTTP_404_NOT_FOUND == 404
\* an exception no handler catches: the framework answers 500
HTTP_500_INTERNAL_SERVER_ERROR == 500
\* set_cookie(key="access_token", ..., max_age=1800)
ACCESS_COOKIE_MAX_AGE == 1800
\* set_cookie(key="refresh_token", ..., max_age=604800)
REFRESH_COOKIE_MAX_AGE == 604800

\* settings.SECRET_KEY, the single process-wide signing secret
SECRET_KEY == "process-secret"
\* a key that is not the process secret (a forger's key)
OTHER_KEY == "forger-key"
\* headers = {"alg": "HS256", "typ": "JWT"}
JWT_HEADERS == [alg |-> "HS256", typ |-> "JWT"]

\* ------------------------------------------------------------ input sets
\* offsets of the server's local time zone from UTC, in seconds
TzOffsets == {-3600, 0, 3600}
\* by how many seconds one clock step moves the time
TimeSteps == {1, ACCESS_TOKEN_EXPIRE, REFRESH_TOKEN_EXPIRE}
Passwords == {"Secret123!", "N3wPassw0rd"}
\* bodies of POST /auth/ (CreateUserRequest), all passing its Field limits
RegistrationRequests ==
    { [username |-> "alice", email |-> "alice@example.com",
       password |-> "Secret123!", role |-> "admin"],
      [username |-> "bob_0000abcd", email |-> "robert@example.com",
       password |-> "Secret123!", role |-> "user"] }
\* usernames typed into the login form: the stored ones and a stranger
LoginUsernames == {"alice", "bob_0000abcd", "mallory"}
\* what Google's userinfo endpoint reports as the account's email
ProviderEmails == {"bob@example.com"}
\* a provider email that is also the email of an account registered with a
\* password
RegisteredProviderEmails == {"alice@example.com"}
\* values of secrets.token_hex(4)
HexSuffixes == {"0000abcd"}
\* HTTP statuses the provider answers with
ProviderStatuses == {200, 503}
\* bodies of POST /todos/ and PUT /todos/{todo_id}/ (TodoRequest), all
\* passing its Field limits
TodoRequests ==
    { [title |-> "Buy groceries", description |-> "Milk, Bread, Eggs",
       priority |-> 2, complete |-> FALSE, tags |-> {}],
      [title |-> "Walk the dog", description |-> "Before dinner",
       priority |-> 5, complete |-> TRUE, tags |-> {1}] }
\* the {todo_id} of a path
TodoIds == {1, 2}
\* bodies of POST /todos/bulk/create/ (List[TodoRequest]): empty, one todo,
\* the same todo twice, two todos, and one that names a tag
BulkTodoRequests ==
    LET buy  == [title |-> "Buy groceries", description |-> "Milk, Bread, Eggs",
                 priority |-> 2, complete |-> FALSE, tags |-> {}]
        walk == [title |-> "Walk the dog", description |-> "Before dinner",
                 priority |-> 5, complete |-> TRUE, tags |-> {}]
    IN  { <<>>, <<buy>>, <<buy, buy>>, <<buy, walk>>,
          <<[walk EXCEPT !.tags = {1}]>> }
\* the todo_ids of DELETE /todos/bulk/delete/ (List[int]): empty, stored
\* ids, an id twice, an id no todo has, and mixtures
BulkTodoIds == {<<>>, <<1>>, <<2>>, <<1, 2>>, <<3>>, <<1, 1>>, <<3, 1>>}
\* arguments of the GraphQL mutation createTodo: title, description,
\* priority and the optional owner_id
GqlTodoInputs ==
    { [title |-> "Buy groceries", description |-> "Milk, Bread, Eggs",
       priority |-> 2, owner_id |-> oid] : oid \in {<<>>, <<1>>} }
\* arguments of the GraphQL queries todo(id) and todos(complete, owner_id)
GqlOwnerFilters == {<<>>, <<1>>}
\* bodies of POST /tags/ (TagsRequest)
TagNames == {"home"}
\* bcrypt salts
Salts == {"Na"}

\* ------------------------------------------------------- Python's Optional
None == <<>>
Some(x) == <<x>>

\* dict.get(key): the value under key, None when the key is absent
dict_get(d, key) == IF key \in DOMAIN d THEN Some(d[key]) ELSE None

Min(S) == CHOOSE m \in S : \A n \in S : m <= n
Range(f) == {f[i] : i \in DOMAIN f}

VARIABLES
    now,      \* true UTC time, in seconds
    ticks,    \* how many times the clock was advanced
    tz,       \* the server's local offset from UTC, in seconds
    users,    \* the users table: a sequence of rows, row i has id i
    todos,    \* the todos table: a set of rows
    tags,     \* the tags table: a set of rows
    issued,   \* every token the server has handed out, with what it was made from
    resp,     \* the response to the last request: its status and what its
              \* body and cookies hold (tokens, todo rows, GraphQL errors)
    sessions  \* per request in flight: how far its get_db generator has run
              \* and whether its datastore session is open.  Where a request
              \* is one step, its session is opened and closed within it.

vars == <<now, ticks, tz, users, todos, tags, issued, resp, sessions>>

\* ------------------------------------------------------------ datetime
\* datetime.now(): the local wall clock, naive (tzinfo is None)
datetime_now == [wall |-> now + tz, tzinfo |-> None]
\* datetime.now(timezone.utc) would be [wall |-> now, tzinfo |-> Some(0)]
datetime_plus(dt, seconds) == [dt EXCEPT !.wall = @ + seconds]
\* calendar.timegm(dt.utctimetuple()): a naive datetime is taken to be UTC
\* already, an aware one is shifted by its offset
timegm_utctimetuple(dt) ==
    IF dt.tzinfo = None THEN dt.wall ELSE dt.wall - dt.tzinfo[1]
\* the decoder's clock: timegm(datetime.utcnow().utctimetuple())
utcnow == now

\* ------------------------------------------------------------ jose.jwt
\* HMAC-SHA256 as an ideal MAC: two signatures are equal exactly when key
\* and signed message are
HS256(key, header, claims) == [key |-> key, header |-> header, claims |-> claims]

\* jwt.encode: a datetime exp becomes an integer, the three segments are
\* base64url-encoded.  b64slack is the signature segment's encoding beyond
\* its bytes (the unused low bits of the last character, characters outside
\* the alphabet): 0 for the encoder's canonical text
jwt_encode(claims, key, headers) ==
    LET payload == [claims EXCEPT !.exp = timegm_utctimetuple(@)]
    IN  [wellformed |-> TRUE, header |-> headers, claims |-> payload,
         signature |-> HS256(key, headers, payload), b64slack |-> 0]

JWTError == [raised |-> TRUE]

\* a decoder that does not compare the signature
jwt_decode_unverified(token, key, algorithms) ==
    IF ~token.wellformed THEN JWTError
    ELSE IF "exp" \in DOMAIN token.claims /\ token.claims.exp < utcnow THEN JWTError
    ELSE [raised |-> FALSE, payload |-> token.claims]

\* jwt.decode(token, key, algorithms): JWTError for text that is no JWT
\* (wellformed is FALSE), an algorithm that is not
\* allowed, a signature that does not verify, or an exp in the past
\* (exp < now: a token is still good in the second its exp names).
\* base64url_decode drops what b64slack stands for before the comparison.
jwt_decode(token, key, algorithms) ==
    IF ~token.wellformed THEN JWTError
    ELSE IF token.header.alg \notin algorithms THEN JWTError
    ELSE IF token.signature # HS256(key, token.header, token.claims) THEN JWTError
    ELSE IF "exp" \in DOMAIN token.claims /\ token.claims.exp < utcnow THEN JWTError
    ELSE [raised |-> FALSE, payload |-> token.claims]

\* ------------------------------------------------------------ passlib
\* bcrypt_context.hash: "$2b$" + salt + digest of (salt, password)
bcrypt_hash(password, salt) == "$2b$" \o salt \o "$" \o password
\* CryptContext identifies a hash by its "$2b$" prefix
bcrypt_identify(hash) == Len(hash) >= 6 /\ SubSeq(hash, 1, 4) = "$2b$"
\* bcrypt_context.verify(password, hash): UnknownHashError when no scheme
\* identifies the hash (the empty string is such a hash), else whether
\* hashing the password with the hash's own salt gives the hash
bcrypt_verify(password, hash) ==
    IF ~bcrypt_identify(hash) THEN [raised |-> TRUE, value |-> FALSE]
    ELSE [raised |-> FALSE,
          value |-> (hash = bcrypt_hash(password, SubSeq(hash, 5, 6)))]

\* ------------------------------------------------------------ auth_utils
\* db.query(Users).filter(Users.username == username).first()
UserByUsername(username) ==
    LET S == {i \in DOMAIN users : users[i].username = username}
    IN  IF S = {} THEN None ELSE Some(users[Min(S)])
UserByEmail(email) ==
    LET S == {i \in DOMAIN users : users[i].email = email}
    IN  IF S = {} THEN None ELSE Some(users[Min(S)])
UserById(id) == IF id \in DOMAIN users THEN Some(users[id]) ELSE None

\* authenticate_user: raised when bcrypt_context.verify raises, else the
\* user or None
authenticate_user(username, password) ==
    LET user == UserByUsername(username)
    IN  IF user = None THEN [raised |-> FALSE, value |-> None]
        ELSE LET v == bcrypt_verify(password, user[1].hashed_password)
             IN  IF v.raised THEN [raised |-> TRUE, value |-> None]
                 ELSE IF ~v.value THEN [raised |-> FALSE, value |-> None]
                 ELSE [raised |-> FALSE, value |-> user]

\* an encoder that writes the default role in place of the one it is given
create_access_token_default_role(username, user_id, role, expires_delta) ==
    jwt_encode([sub |-> username, id |-> user_id, role |-> "user",
                token_type |-> "access",
                exp |-> datetime_plus(datetime_now, expires_delta)],
               SECRET_KEY, JWT_HEADERS)

create_access_token(username, user_id, role, expires_delta) ==
    jwt_encode([sub |-> username, id |-> user_id, role |-> role,
                token_type |-> "access",
                exp |-> datetime_plus(datetime_now, expires_delta)],
               SECRET_KEY, JWT_HEADERS)

\* an encoder that copies the stored role into the refresh token
create_refresh_token_with_role(username, user_id) ==
    jwt_encode([sub |-> username, id |-> user_id,
                role |-> IF UserById(user_id) = None THEN "user"
                         ELSE UserById(user_id)[1].role,
                token_type |-> "refresh",
                exp |-> datetime_plus(datetime_now, REFRESH_TOKEN_EXPIRE)],
               SECRET_KEY, JWT_HEADERS)

create_refresh_token(username, user_id) ==
    jwt_encode([sub |-> username, id |-> user_id,
                token_type |-> "refresh",
                exp |-> datetime_plus(datetime_now, REFRESH_TOKEN_EXPIRE)],
               SECRET_KEY, JWT_HEADERS)

\* a verifier that takes only the newest refresh token of a user: one that
\* was followed by a later one for the same id is turned away
verify_refresh_token_rotating(token) ==
    LET d == jwt_decode(token, SECRET_KEY, {"HS256"})
    IN  IF d.raised
        THEN [status |-> HTTP_401_UNAUTHORIZED,
              detail |-> "Could not validate refresh token."]
        ELSE IF dict_get(d.payload, "token_type") # Some("refresh")
        THEN [status |-> HTTP_401_UNAUTHORIZED, detail |-> "Invalid token type."]
        ELSE IF dict_get(d.payload, "sub") = None \/ dict_get(d.payload, "id") = None
        THEN [status |-> HTTP_401_UNAUTHORIZED,
              detail |-> "Could not validate credentials."]
        ELSE IF \E j \in issued : /\ j.kind = "refresh" /\ j.id = d.payload.id
                                   /\ j.token.claims.exp > d.payload.exp
        THEN [status |-> HTTP_401_UNAUTHORIZED,
              detail |-> "Could not validate refresh token."]
        ELSE [status |-> HTTP_200_OK, detail |-> "",
              username |-> d.payload.sub, id |-> d.payload.id]

\* a verifier that tells an expired token from a malformed one: 403 for a
\* token that is sound but past its exp
verify_refresh_token_expiry_distinct(token) ==
    LET d == jwt_decode(token, SECRET_KEY, {"HS256"})
        sound == /\ token.wellformed
                 /\ token.signature = HS256(SECRET_KEY, token.header, token.claims)
    IN  IF d.raised /\ sound /\ token.header.alg = "HS256"
        THEN [status |-> 403, detail |-> "Refresh token expired."]
        ELSE IF d.raised
        THEN [status |-> HTTP_401_UNAUTHORIZED,
              detail |-> "Could not validate refresh token."]
        ELSE IF dict_get(d.payload, "token_type") # Some("refresh")
        THEN [status |-> HTTP_401_UNAUTHORIZED, detail |-> "Invalid token type."]
        ELSE IF dict_get(d.payload, "sub") = None \/ dict_get(d.payload, "id") = None
        THEN [status |-> HTTP_401_UNAUTHORIZED,
              detail |-> "Could not validate credentials."]
        ELSE [status |-> HTTP_200_OK, detail |-> "",
              username |-> d.payload.sub, id |-> d.payload.id]

\* verify_refresh_token: status 200 with the payload's username and id, or
\* the HTTPException raised
verify_refresh_token(token) ==
    LET d == jwt_decode(token, SECRET_KEY, {"HS256"})
    IN  IF d.raised
        THEN [status |-> HTTP_401_UNAUTHORIZED,
              detail |-> "Could not validate refresh token."]
        ELSE IF dict_get(d.payload, "token_type") # Some("refresh")
        THEN [status |-> HTTP_401_UNAUTHORIZED, detail |-> "Invalid token type."]
        ELSE IF dict_get(d.payload, "sub") = None \/ dict_get(d.payload, "id") = None
        THEN [status |-> HTTP_401_UNAUTHORIZED,
              detail |-> "Could not validate credentials."]
        ELSE [status |-> HTTP_200_OK, detail |-> "",
              username |-> d.payload.sub, id |-> d.payload.id]

\* a verifier that looks the token's user up in the store and turns the
\* token away when the row is missing or holds no password hash
get_current_user_store_checked(token) ==
    LET d == jwt_decode(token, SECRET_KEY, {"HS256"})
        row == IF d.raised \/ dict_get(d.payload, "id") = None THEN None
               ELSE UserById(d.payload.id)
    IN  IF d.raised
        THEN [status |-> HTTP_401_UNAUTHORIZED, detail |-> "Could not validate user."]
        ELSE IF dict_get(d.payload, "sub") = None \/ dict_get(d.payload, "id") = None
        THEN [status |-> HTTP_401_UNAUTHORIZED,
              detail |-> "Could not validate credentials."]
        ELSE IF row = None \/ ~bcrypt_identify(row[1].hashed_password)
        THEN [status |-> HTTP_401_UNAUTHORIZED, detail |-> "Could not validate user."]
        ELSE [status |-> HTTP_200_OK, detail |-> "",
              username |-> d.payload.sub, id |-> d.payload.id,
              user_role |-> dict_get(d.payload, "role")]

\* a verifier that puts a default in the place of a missing sub or id
get_current_user_defaulting(token) ==
    LET d == jwt_decode(token, SECRET_KEY, {"HS256"})
    IN  IF d.raised
        THEN [status |-> HTTP_401_UNAUTHORIZED, detail |-> "Could not validate user."]
        ELSE [status |-> HTTP_200_OK, detail |-> "",
              username |-> IF "sub" \in DOMAIN d.payload THEN d.payload.sub ELSE "",
              id |-> IF "id" \in DOMAIN d.payload THEN d.payload.id ELSE 0,
              user_role |-> dict_get(d.payload, "role")]

\* get_current_user: status 200 with the user dict, or the HTTPException
get_current_user(token) ==
    LET d == jwt_decode(token, SECRET_KEY, {"HS256"})
    IN  IF d.raised
        THEN [status |-> HTTP_401_UNAUTHORIZED, detail |-> "Could not validate user."]
        ELSE IF dict_get(d.payload, "sub") = None \/ dict_get(d.payload, "id") = None
        THEN [status |-> HTTP_401_UNAUTHORIZED,
              detail |-> "Could not validate credentials."]
        ELSE [status |-> HTTP_200_OK, detail |-> "",
              username |-> d.payload.sub, id |-> d.payload.id,
              user_role |-> dict_get(d.payload, "role")]

\* ------------------------------------------------------------ responses
\* the response to a request: the handler that answered, its status, the
\* tokens in its JSON body, the tokens set as cookies, and the provider
\* calls the request made
Response(op, status, body, cookies, calls) ==
    [op |-> op, status |-> status, body |-> body, cookies |-> cookies,
     calls |-> calls]

\* the record kept of an issued token: the token, when it was issued (true
\* UTC), the lifetime asked for and the values it was made from
Issue(token, kind, ttl, username, user_id, role) ==
    [token |-> token, kind |-> kind, at |-> now, ttl |-> ttl,
     username |-> username, id |-> user_id, role |-> role]

\* the access and refresh token a handler makes for a user row
TokenPair(user) ==
    [access |-> create_access_token(user.username, user.id, user.role,
                                    ACCESS_TOKEN_EXPIRE),
     refresh |-> create_refresh_token(user.username, user.id)]
PairIssues(user) ==
    { Issue(TokenPair(user).access, "access", ACCESS_TOKEN_EXPIRE,
            user.username, user.id, Some(user.role)),
      Issue(TokenPair(user).refresh, "refresh", REFRESH_TOKEN_EXPIRE,
            user.username, user.id, None) }
\* the two cookies google_callback sets for a pair
PairCookies(pair) ==
    { [key |-> "access_token", value |-> pair.access,
       max_age |-> ACCESS_COOKIE_MAX_AGE],
      [key |-> "refresh_token", value |-> pair.refresh,
       max_age |-> REFRESH_COOKIE_MAX_AGE] }
CanIssue(user) == Cardinality(issued \cup PairIssues(user)) <= 2 * MaxPairs

Init ==
    /\ now = 0
    /\ ticks = 0
    /\ tz \in TzOffsets
    /\ users = <<>>
    /\ todos = {}
    /\ tags = {}
    /\ issued = {}
    /\ resp = Response("", HTTP_200_OK, {}, {}, <<>>)
    /\ sessions = [r \in 1..MaxRequests |-> [phase |-> "idle", open |-> FALSE]]

\* ------------------------------------------------------------ database
\* get_db up to its yield: db = SessionLocal(), then the session is handed
\* to the handler of request r
get_db_enter(r) ==
    /\ sessions[r].phase \in {"idle", "done"}
    /\ sessions' = [sessions EXCEPT ![r] = [phase |-> "yielded", open |-> TRUE]]
    /\ UNCHANGED <<now, ticks, tz, users, todos, tags, issued, resp>>

\* the handler of request r returns
handler_returns(r) ==
    /\ sessions[r].phase = "yielded"
    /\ sessions' = [sessions EXCEPT ![r].phase = "returned"]
    /\ UNCHANGED <<now, ticks, tz, users, todos, tags, issued, resp>>

\* the handler of request r raises (an HTTPException or any other)
handler_raises(r) ==
    /\ sessions[r].phase = "yielded"
    /\ sessions' = [sessions EXCEPT ![r].phase = "raised"]
    /\ UNCHANGED <<now, ticks, tz, users, todos, tags, issued, resp>>

\* a generator whose db.close() follows the yield outside any finally: an
\* exception thrown in at the yield leaves the generator before the close
get_db_exit_without_finally(r) ==
    /\ sessions[r].phase \in {"returned", "raised"}
    /\ sessions' = [sessions EXCEPT ![r] =
                        [phase |-> "done",
                         open |-> IF sessions[r].phase = "raised" THEN @.open
                                  ELSE FALSE]]
    /\ UNCHANGED <<now, ticks, tz, users, todos, tags, issued, resp>>

\* get_db after its yield, at the end of request r: the framework resumes
\* the generator when the handler returned and throws the exception into it
\* when the handler raised; either way the finally block runs db.close()
get_db_exit(r) ==
    /\ sessions[r].phase \in {"returned", "raised"}
    /\ sessions' = [sessions EXCEPT ![r] = [phase |-> "done", open |-> FALSE]]
    /\ UNCHANGED <<now, ticks, tz, users, todos, tags, issued, resp>>

\* ------------------------------------------------------------ routers/auth
\* the users table's unique constraints on email and username
UsersUnique(rows) ==
    \A i, j \in DOMAIN rows :
        i # j => rows[i].email # rows[j].email /\ rows[i].username # rows[j].username

\* POST /auth/: db.add + db.commit; a commit that breaks a unique constraint
\* raises IntegrityError and leaves the table as it was
create_user(req) ==
    /\ \E salt \in Salts :
        LET row == [id |-> Len(users) + 1, email |-> req.email,
                    username |-> req.username,
                    hashed_password |-> bcrypt_hash(req.password, salt),
                    is_active |-> TRUE, role |-> req.role]
        IN  IF UsersUnique(Append(users, row))
            THEN /\ users' = Append(users, row)
                 /\ resp' = Response("create_user", HTTP_201_CREATED, {}, {}, <<>>)
            ELSE /\ users' = users
                 /\ resp' = Response("create_user", HTTP_500_INTERNAL_SERVER_ERROR,
                                     {}, {}, <<>>)
    /\ UNCHANGED <<sessions, now, ticks, tz, todos, tags, issued>>

\* POST /auth/token/
login_for_access_token(username, password) ==
    LET a == authenticate_user(username, password)
        answer(status, body) ==
            Response("login_for_access_token", status, body, {}, <<>>)
    IN  /\ IF a.raised
           THEN resp' = answer(HTTP_500_INTERNAL_SERVER_ERROR, {}) /\ issued' = issued
           ELSE IF a.value = None
           THEN resp' = answer(HTTP_401_UNAUTHORIZED, {}) /\ issued' = issued
           ELSE /\ CanIssue(a.value[1])
                /\ resp' = answer(HTTP_200_OK, {TokenPair(a.value[1]).access,
                                                TokenPair(a.value[1]).refresh})
                /\ issued' = issued \cup PairIssues(a.value[1])
        /\ UNCHANGED <<sessions, now, ticks, tz, users, todos, tags>>

\* ------------------------------------------------------------ clients
\* what a client can make of an issued token without the process secret:
\* the payload edited under the old signature, the payload (edited or not)
\* signed with another key, another algorithm named in the header, the
\* signature segment re-encoded, and text that is no JWT at all
PayloadEdits(t) ==
    { [t EXCEPT !.claims.exp = @ + REFRESH_TOKEN_EXPIRE],
      [t EXCEPT !.claims.token_type = IF @ = "access" THEN "refresh" ELSE "access"],
      IF "role" \in DOMAIN t.claims THEN [t EXCEPT !.claims.role = "admin"] ELSE t
    } \ {t}
Resigned(t, key) == [t EXCEPT !.signature = HS256(key, t.header, t.claims)]
Forgeries(t) ==
    PayloadEdits(t)
    \cup {Resigned(t, OTHER_KEY)}
    \cup {Resigned([t EXCEPT !.header.alg = "none"], "")}
    \cup {[t EXCEPT !.wellformed = FALSE]}
Reencoded(t) == [t EXCEPT !.b64slack = 1]

\* a payload with some claims taken out
Without(claims, keys) == [k \in (DOMAIN claims) \ keys |-> claims[k]]
IssuedTokens == {i.token : i \in issued}
\* the bearer tokens the datastore handlers are called with: the issued
\* ones and a forgery of each access token
Bearers ==
    IssuedTokens
    \cup {Resigned(i.token, OTHER_KEY) : i \in {j \in issued : j.kind = "access"}}
\* the tokens the token endpoints are called with
PresentedTokens ==
    IssuedTokens
    \cup UNION {Forgeries(t) : t \in IssuedTokens}
    \cup {Reencoded(t) : t \in IssuedTokens}

\* tokens signed with the process secret whose payload lacks sub, id or
\* both: the server makes none, a holder of the secret can
ClaimlessTokens ==
    { Resigned([t EXCEPT !.claims = Without(@, ks)], SECRET_KEY) :
          t \in IssuedTokens, ks \in {{"sub"}, {"id"}, {"sub", "id"}} }

\* POST /auth/token/refresh/
refresh_access_token(refresh_token) ==
    LET token_data == verify_refresh_token(refresh_token)
        user == IF token_data.status = HTTP_200_OK
                THEN UserById(token_data.id) ELSE None
    IN  /\ IF token_data.status # HTTP_200_OK \/ user = None
           THEN /\ resp' = Response("refresh_access_token", HTTP_401_UNAUTHORIZED,
                                    {}, {}, <<>>)
                /\ issued' = issued
           ELSE /\ CanIssue(user[1])
                /\ resp' = Response("refresh_access_token", HTTP_200_OK,
                                    {TokenPair(user[1]).access,
                                     TokenPair(user[1]).refresh}, {}, <<>>)
                /\ issued' = issued \cup PairIssues(user[1])
        /\ UNCHANGED <<sessions, now, ticks, tz, users, todos, tags>>

\* ------------------------------------------------------------ routers/users
\* GET /user/me
read_current_user(token) ==
    /\ resp' = Response("read_current_user", get_current_user(token).status,
                        {}, {}, <<>>)
    /\ UNCHANGED <<sessions, now, ticks, tz, users, todos, tags, issued>>

\* a handler that stores the new hash before it looks at the current password
change_password_store_first(token, password, new_password) ==
    LET user == get_current_user(token)
        user_model == IF user.status = HTTP_200_OK THEN UserById(user.id) ELSE None
        check == IF user_model = None THEN [raised |-> FALSE, value |-> FALSE]
                 ELSE bcrypt_verify(password, user_model[1].hashed_password)
        answer(status) == Response("change_password", status, {}, {}, <<>>)
        stored == \E salt \in Salts :
                      users' = [users EXCEPT ![user.id].hashed_password =
                                                 bcrypt_hash(new_password, salt)]
    IN  /\ IF user.status # HTTP_200_OK
           THEN resp' = answer(HTTP_401_UNAUTHORIZED) /\ users' = users
           ELSE IF user_model = None
           THEN resp' = answer(HTTP_404_NOT_FOUND) /\ users' = users
           ELSE IF check.raised
           THEN resp' = answer(HTTP_500_INTERNAL_SERVER_ERROR) /\ stored
           ELSE IF ~check.value
           THEN resp' = answer(HTTP_401_UNAUTHORIZED) /\ stored
           ELSE resp' = answer(HTTP_200_OK) /\ stored
        /\ UNCHANGED <<sessions, now, ticks, tz, todos, tags, issued>>

\* PATCH /user/me/password/
change_password(token, password, new_password) ==
    LET user == get_current_user(token)
        user_model == IF user.status = HTTP_200_OK THEN UserById(user.id) ELSE None
        check == IF user_model = None THEN [raised |-> FALSE, value |-> FALSE]
                 ELSE bcrypt_verify(password, user_model[1].hashed_password)
        answer(status) == Response("change_password", status, {}, {}, <<>>)
    IN  /\ IF user.status # HTTP_200_OK
           THEN resp' = answer(HTTP_401_UNAUTHORIZED) /\ users' = users
           ELSE IF user_model = None
           THEN resp' = answer(HTTP_404_NOT_FOUND) /\ users' = users
           ELSE IF check.raised
           THEN resp' = answer(HTTP_500_INTERNAL_SERVER_ERROR) /\ users' = users
           ELSE IF ~check.value
           THEN resp' = answer(HTTP_401_UNAUTHORIZED) /\ users' = users
           ELSE /\ \E salt \in Salts :
                    users' = [users EXCEPT ![user.id].hashed_password =
                                               bcrypt_hash(new_password, salt)]
                /\ resp' = answer(HTTP_200_OK)
        /\ UNCHANGED <<sessions, now, ticks, tz, todos, tags, issued>>

\* ------------------------------------------------------------ Google OAuth
\* email.split("@")[0]: the text before the first "@", all of it without one
SplitAt0(s) ==
    LET at == {i \in 1..Len(s) : SubSeq(s, i, i) = "@"}
    IN  IF at = {} THEN s ELSE SubSeq(s, 1, Min(at) - 1)

\* a callback that does not look at the status of the userinfo answer
google_callback_unchecked_userinfo(token_status, userinfo_status, email, hex) ==
    LET answer(status, cookies, calls) ==
            Response("google_callback", status, {}, cookies, calls)
        found == UserByEmail(email)
        row == [id |-> Len(users) + 1, email |-> email,
                username |-> SplitAt0(email) \o "_" \o hex,
                hashed_password |-> "", is_active |-> TRUE, role |-> "user"]
        user == IF found = None THEN row ELSE found[1]
    IN  /\ IF token_status # HTTP_200_OK
           THEN /\ resp' = answer(HTTP_400_BAD_REQUEST, {}, <<"token">>)
                /\ users' = users /\ issued' = issued
           ELSE IF found = None /\ ~UsersUnique(Append(users, row))
           THEN /\ resp' = answer(HTTP_500_INTERNAL_SERVER_ERROR, {},
                                  <<"token", "userinfo">>)
                /\ users' = users /\ issued' = issued
           ELSE /\ CanIssue(user)
                /\ users' = IF found = None THEN Append(users, row) ELSE users
                /\ issued' = issued \cup PairIssues(user)
                /\ resp' = answer(HTTP_302_FOUND, PairCookies(TokenPair(user)),
                                  <<"token", "userinfo">>)
        /\ UNCHANGED <<sessions, now, ticks, tz, todos, tags>>

\* a callback that asks for an access token of one hour
google_callback_hour_token(token_status, userinfo_status, email, hex) ==
    LET answer(status, cookies, calls) ==
            Response("google_callback", status, {}, cookies, calls)
        found == UserByEmail(email)
        row == [id |-> Len(users) + 1, email |-> email,
                username |-> SplitAt0(email) \o "_" \o hex,
                hashed_password |-> "", is_active |-> TRUE, role |-> "user"]
        user == IF found = None THEN row ELSE found[1]
        pair == [access |-> create_access_token(user.username, user.id, user.role,
                                                2 * ACCESS_TOKEN_EXPIRE),
                 refresh |-> create_refresh_token(user.username, user.id)]
    IN  /\ IF token_status # HTTP_200_OK
           THEN /\ resp' = answer(HTTP_400_BAD_REQUEST, {}, <<"token">>)
                /\ users' = users /\ issued' = issued
           ELSE IF userinfo_status # HTTP_200_OK
           THEN /\ resp' = answer(HTTP_400_BAD_REQUEST, {}, <<"token", "userinfo">>)
                /\ users' = users /\ issued' = issued
           ELSE IF found = None /\ ~UsersUnique(Append(users, row))
           THEN /\ resp' = answer(HTTP_500_INTERNAL_SERVER_ERROR, {},
                                  <<"token", "userinfo">>)
                /\ users' = users /\ issued' = issued
           ELSE /\ CanIssue(user)
                /\ users' = IF found = None THEN Append(users, row) ELSE users
                /\ issued' = issued \cup
                       { Issue(pair.access, "access", 2 * ACCESS_TOKEN_EXPIRE,
                               user.username, user.id, Some(user.role)),
                         Issue(pair.refresh, "refresh", REFRESH_TOKEN_EXPIRE,
                               user.username, user.id, None) }
                /\ resp' = answer(HTTP_302_FOUND, PairCookies(pair),
                                  <<"token", "userinfo">>)
        /\ UNCHANGED <<sessions, now, ticks, tz, todos, tags>>

\* GET /auth/google/callback.  token_status and userinfo_status are the
\* provider's answers to the code exchange and to the userinfo call, email
\* is user_info["email"], hex is secrets.token_hex(4).  The handler awaits
\* the two provider calls and then runs to its end without suspending, so
\* its datastore work is one step.
google_callback(token_status, userinfo_status, email, hex) ==
    LET answer(status, cookies, calls) ==
            Response("google_callback", status, {}, cookies, calls)
        found == UserByEmail(email)
        row == [id |-> Len(users) + 1, email |-> email,
                username |-> SplitAt0(email) \o "_" \o hex,
                hashed_password |-> "", is_active |-> TRUE, role |-> "user"]
        user == IF found = None THEN row ELSE found[1]
    IN  /\ IF token_status # HTTP_200_OK
           THEN /\ resp' = answer(HTTP_400_BAD_REQUEST, {}, <<"token">>)
                /\ users' = users /\ issued' = issued
           ELSE IF userinfo_status # HTTP_200_OK
           THEN /\ resp' = answer(HTTP_400_BAD_REQUEST, {}, <<"token", "userinfo">>)
                /\ users' = users /\ issued' = issued
           ELSE IF found = None /\ ~UsersUnique(Append(users, row))
           THEN /\ resp' = answer(HTTP_500_INTERNAL_SERVER_ERROR, {},
                                  <<"token", "userinfo">>)
                /\ users' = users /\ issued' = issued
           ELSE /\ CanIssue(user)
                /\ users' = IF found = None THEN Append(users, row) ELSE users
                /\ issued' = issued \cup PairIssues(user)
                /\ resp' = answer(HTTP_302_FOUND, PairCookies(TokenPair(user)),
                                  <<"token", "userinfo">>)
        /\ UNCHANGED <<sessions, now, ticks, tz, todos, tags>>

\* ------------------------------------------------------------ routers/todos
\* an integer primary key the table assigns: one more than the largest id
NextId(rows) == IF rows = {} THEN 1 ELSE 1 + CHOOSE m \in {r.id : r \in rows} :
                                             \A r \in rows : r.id <= m
\* the todos table's unique constraint on title
TodosUnique(rows) == \A r, q \in rows : r.id # q.id => r.title # q.title
\* db.query(Todos).filter(Todos.id == todo_id)
\*   .filter(Todos.owner_id == user.get("id")).first()
OwnTodo(todo_id, owner_id) ==
    LET S == {r \in todos : r.id = todo_id /\ r.owner_id = owner_id}
    IN  IF S = {} THEN None ELSE Some(CHOOSE r \in S : TRUE)

\* GET /todos/{todo_id}/
read_todo(token, todo_id) ==
    LET user == get_current_user(token)
        answer(status) == Response("read_todo", status, {}, {}, <<>>)
    IN  /\ IF user.status # HTTP_200_OK
           THEN resp' = answer(HTTP_401_UNAUTHORIZED)
           ELSE IF OwnTodo(todo_id, user.id) = None
           THEN resp' = answer(HTTP_404_NOT_FOUND)
           ELSE resp' = answer(HTTP_200_OK)
        /\ UNCHANGED <<sessions, now, ticks, tz, users, todos, tags, issued>>

\* POST /todos/: the tags of the new row are the stored tags among tag_ids
create_todo(token, todo_request) ==
    LET user == get_current_user(token)
        answer(status) == Response("create_todo", status, {}, {}, <<>>)
        tag_objs == {g.id : g \in {g \in tags : g.id \in todo_request.tags}}
        row == [id |-> NextId(todos), title |-> todo_request.title,
                description |-> todo_request.description,
                priority |-> todo_request.priority,
                complete |-> todo_request.complete,
                owner_id |-> user.id, tags |-> tag_objs]
    IN  /\ IF user.status # HTTP_200_OK
           THEN resp' = answer(HTTP_401_UNAUTHORIZED) /\ todos' = todos
           ELSE IF ~TodosUnique(todos \cup {row})
           THEN resp' = answer(HTTP_500_INTERNAL_SERVER_ERROR) /\ todos' = todos
           ELSE /\ todos' = todos \cup {row}
                /\ resp' = answer(HTTP_201_CREATED)
        /\ UNCHANGED <<sessions, now, ticks, tz, users, tags, issued>>

\* PUT /todos/{todo_id}/
update_todo(token, todo_request, todo_id) ==
    LET user == get_current_user(token)
        answer(status) == Response("update_todo", status, {}, {}, <<>>)
        todo_model == IF user.status = HTTP_200_OK
                      THEN OwnTodo(todo_id, user.id) ELSE None
        row == [todo_model[1] EXCEPT !.title = todo_request.title,
                                     !.description = todo_request.description,
                                     !.priority = todo_request.priority,
                                     !.complete = todo_request.complete]
    IN  /\ IF user.status # HTTP_200_OK
           THEN resp' = answer(HTTP_401_UNAUTHORIZED) /\ todos' = todos
           ELSE IF todo_model = None
           THEN resp' = answer(HTTP_404_NOT_FOUND) /\ todos' = todos
           ELSE IF ~TodosUnique((todos \ {todo_model[1]}) \cup {row})
           THEN resp' = answer(HTTP_500_INTERNAL_SERVER_ERROR) /\ todos' = todos
           ELSE /\ todos' = (todos \ {todo_model[1]}) \cup {row}
                /\ resp' = answer(HTTP_204_NO_CONTENT)
        /\ UNCHANGED <<sessions, now, ticks, tz, users, tags, issued>>

\* DELETE /todos/{todo_id}/
delete_todo(token, todo_id) ==
    LET user == get_current_user(token)
        answer(status) == Response("delete_todo", status, {}, {}, <<>>)
    IN  /\ IF user.status # HTTP_200_OK
           THEN resp' = answer(HTTP_401_UNAUTHORIZED) /\ todos' = todos
           ELSE IF OwnTodo(todo_id, user.id) = None
           THEN resp' = answer(HTTP_404_NOT_FOUND) /\ todos' = todos
           ELSE /\ todos' = {r \in todos : r.id # todo_id}
                /\ resp' = answer(HTTP_204_NO_CONTENT)
        /\ UNCHANGED <<sessions, now, ticks, tz, users, tags, issued>>

\* the rows bulk_save_objects inserts for a list of requests: ids count up
\* from the table's next id, the tags relationship is not written
RECURSIVE BulkRows(_, _, _)
BulkRows(todo_requests, owner_id, first_id) ==
    IF todo_requests = <<>> THEN {}
    ELSE LET q == Head(todo_requests)
         IN  {[id |-> first_id, title |-> q.title, description |-> q.description,
               priority |-> q.priority, complete |-> q.complete,
               owner_id |-> owner_id, tags |-> {}]}
             \cup BulkRows(Tail(todo_requests), owner_id, first_id + 1)

\* a bulk insert that the title's unique constraint does not stop
create_todos_bulk_unconstrained(token, todo_requests) ==
    LET user == get_current_user(token)
        answer(status) == Response("create_todos_bulk", status, {}, {}, <<>>)
        rows == BulkRows(todo_requests, user.id, NextId(todos))
    IN  /\ IF user.status # HTTP_200_OK
           THEN resp' = answer(HTTP_401_UNAUTHORIZED) /\ todos' = todos
           ELSE IF \E k \in DOMAIN todo_requests : todo_requests[k].tags # {}
           THEN resp' = answer(HTTP_500_INTERNAL_SERVER_ERROR) /\ todos' = todos
           ELSE /\ todos' = todos \cup rows
                /\ resp' = answer(HTTP_201_CREATED)
        /\ UNCHANGED <<sessions, now, ticks, tz, users, tags, issued>>

\* POST /todos/bulk/create/: Todos(**model_dump()) is handed tags as a list
\* of integers, which the relationship takes only when the list is empty;
\* all rows are inserted in one transaction or none is
create_todos_bulk(token, todo_requests) ==
    LET user == get_current_user(token)
        answer(status) == Response("create_todos_bulk", status, {}, {}, <<>>)
        rows == BulkRows(todo_requests, user.id, NextId(todos))
    IN  /\ IF user.status # HTTP_200_OK
           THEN resp' = answer(HTTP_401_UNAUTHORIZED) /\ todos' = todos
           ELSE IF \E k \in DOMAIN todo_requests : todo_requests[k].tags # {}
           THEN resp' = answer(HTTP_500_INTERNAL_SERVER_ERROR) /\ todos' = todos
           ELSE IF \/ Cardinality(rows) # Len(todo_requests)
                   \/ ~TodosUnique(todos \cup rows)
           THEN resp' = answer(HTTP_500_INTERNAL_SERVER_ERROR) /\ todos' = todos
           ELSE /\ todos' = todos \cup rows
                /\ resp' = answer(HTTP_201_CREATED)
        /\ UNCHANGED <<sessions, now, ticks, tz, users, tags, issued>>

\* DELETE /todos/bulk/delete/: no credential is asked for.  Query.delete
\* issues one DELETE on todos and none on todo_tags, so the rows of todo_tags
\* that name a deleted todo stay: a database that enforces the foreign key
\* todo_tags.todo_id (PostgreSQL, the configured one) refuses the DELETE with
\* IntegrityError, one that does not (SQLite, the fallback) carries it out.
delete_todos_bulk(todo_ids) ==
    LET answer(status, body) ==
            Response("delete_todos_bulk", status, body, {}, <<>>)
        no_duplicates == Range(todo_ids)
        existing_ids == {r.id : r \in {q \in todos : q.id \in no_duplicates}}
        valid_ids == no_duplicates \cap existing_ids
        referenced == \E r \in todos : r.id \in valid_ids /\ r.tags # {}
        message == <<"Deleted", Cardinality(valid_ids), "todos">>
    IN  /\ IF todo_ids = <<>>
           THEN resp' = answer(HTTP_400_BAD_REQUEST, {}) /\ todos' = todos
           ELSE IF valid_ids = {}
           THEN resp' = answer(HTTP_404_NOT_FOUND, {}) /\ todos' = todos
           ELSE \/ /\ referenced
                   /\ resp' = answer(HTTP_500_INTERNAL_SERVER_ERROR, {})
                   /\ todos' = todos
                \/ /\ todos' = {r \in todos : r.id \notin valid_ids}
                   /\ resp' = answer(HTTP_200_OK, {[message |-> message]})
        /\ UNCHANGED <<sessions, now, ticks, tz, users, tags, issued>>

\* the tags table's unique constraint on name
TagsUnique(rows) == \A g, h \in rows : g.id # h.id => g.name # h.name

\* ------------------------------------------------------------ routers/tags
\* POST /tags/: no credential is asked for; the name is unique
create_tag(name) ==
    /\ IF \E g \in tags : g.name = name
       THEN /\ tags' = tags
            /\ resp' = Response("create_tag", HTTP_500_INTERNAL_SERVER_ERROR,
                                {}, {}, <<>>)
       ELSE /\ tags' = tags \cup {[id |-> NextId(tags), name |-> name]}
            /\ resp' = Response("create_tag", HTTP_201_CREATED, {}, {}, <<>>)
    /\ UNCHANGED <<sessions, now, ticks, tz, users, todos, issued>>

\* ------------------------------------------------------------ gql
\* what TodoType.from_orm keeps of a row
TodoType(todo) ==
    [id |-> todo.id, title |-> todo.title, description |-> todo.description,
     priority |-> todo.priority, complete |-> todo.complete,
     owner_id |-> todo.owner_id]

\* a NULL owner_id is written 0: ids start at 1, so it equals no user's id
NullOwner == 0

\* the answer of the GraphQL endpoint: HTTP 200 with the data, or HTTP 200
\* with an errors entry when the resolver raised
GraphQLResponse(op, data) == Response(op, HTTP_200_OK, data, {}, <<>>)
GraphQLError(op) == Response(op, HTTP_200_OK, {[errors |-> "IntegrityError"]}, {}, <<>>)

\* query todos(complete, owner_id): no credential is asked for
Query_todos(complete, owner_id) ==
    /\ resp' = GraphQLResponse("Query.todos",
           {TodoType(r) : r \in {q \in todos :
                /\ complete # None => q.complete = complete[1]
                /\ owner_id # None => q.owner_id = owner_id[1]}})
    /\ UNCHANGED <<sessions, now, ticks, tz, users, todos, tags, issued>>

\* query todo(id): no credential is asked for
Query_todo(id) ==
    /\ resp' = GraphQLResponse("Query.todo",
                               {TodoType(r) : r \in {q \in todos : q.id = id}})
    /\ UNCHANGED <<sessions, now, ticks, tz, users, todos, tags, issued>>

\* mutation createTodo: no credential is asked for; complete is False and
\* the owner is the owner_id argument.  Without the argument the insert
\* writes NULL, which the table made by create_all (owner_id NOT NULL)
\* refuses and the table made by the migration takes: either can be deployed
Mutation_create_todo(input) ==
    LET row == [id |-> NextId(todos), title |-> input.title,
                description |-> input.description, priority |-> input.priority,
                complete |-> FALSE,
                owner_id |-> IF input.owner_id = None THEN NullOwner
                             ELSE input.owner_id[1],
                tags |-> {}]
    IN  /\ IF ~TodosUnique(todos \cup {row})
           THEN resp' = GraphQLError("Mutation.create_todo") /\ todos' = todos
           ELSE \/ /\ todos' = todos \cup {row}
                   /\ resp' = GraphQLResponse("Mutation.create_todo", {TodoType(row)})
                \/ /\ input.owner_id = None
                   /\ resp' = GraphQLError("Mutation.create_todo") /\ todos' = todos
        /\ UNCHANGED <<sessions, now, ticks, tz, users, tags, issued>>

\* the passage of time.  Until a token exists nothing reads the clock, so
\* time is let pass only once one does.
Advance(step) ==
    /\ ticks < MaxTicks
    /\ issued # {}
    /\ now' = now + step
    /\ ticks' = ticks + 1
    /\ UNCHANGED <<sessions, tz, users, todos, tags, issued, resp>>

\* the clock moves once, to one second past the longest token lifetime:
\* every token issued before is expired after it
Outlive == ticks = 0 /\ Advance(REFRESH_TOKEN_EXPIRE + 1)

\* the token lifecycle: registration, login, refresh, a protected endpoint
\* and the clock
NextTokens ==
    \/ \E req \in RegistrationRequests : create_user(req)
    \/ \E u \in LoginUsernames, p \in Passwords : login_for_access_token(u, p)
    \/ \E t \in PresentedTokens : refresh_access_token(t)
    \/ \E t \in PresentedTokens : read_current_user(t)
    \/ \E t \in ClaimlessTokens : refresh_access_token(t)
    \/ \E t \in ClaimlessTokens : read_current_user(t)
    \/ \E step \in TimeSteps : Advance(step)

SpecTokens == Init /\ [][NextTokens]_vars

\* accounts and records: every handler that reads or writes the datastore.
\* The todos table is taken up to one row here, and the clock moves once.
Next ==
    \/ \E req \in RegistrationRequests : create_user(req)
    \/ \E u \in LoginUsernames, p \in Passwords : login_for_access_token(u, p)
    \/ \E t \in Bearers : refresh_access_token(t)
    \/ \E t \in Bearers : read_current_user(t)
    \/ \E t \in Bearers, p, n \in Passwords : change_password(t, p, n)
    \/ \E ts, us \in ProviderStatuses, e \in ProviderEmails, h \in HexSuffixes :
          google_callback(ts, us, e, h)
    \/ \E t \in Bearers, id \in TodoIds : read_todo(t, id)
    \/ todos = {} /\ \E t \in Bearers, r \in TodoRequests : create_todo(t, r)
    \/ \E t \in Bearers, r \in TodoRequests, id \in TodoIds : update_todo(t, r, id)
    \/ \E t \in Bearers, id \in TodoIds : delete_todo(t, id)
    \/ \E name \in TagNames : create_tag(name)
    \/ Outlive

InitUTC == Init /\ tz = 0
Spec == InitUTC /\ [][Next]_vars

\* the datastore under every endpoint that writes or reads todos, REST and
\* GraphQL, with two users; the clock stands still.  Titles are unique, so
\* the two titles of the request bodies keep the table at two rows.
NextStore ==
    \/ \E req \in RegistrationRequests : create_user(req)
    \/ \E u \in LoginUsernames, p \in Passwords : login_for_access_token(u, p)
    \/ \E ts, us \in ProviderStatuses, e \in ProviderEmails, h \in HexSuffixes :
          google_callback(ts, us, e, h)
    \/ \E name \in TagNames : create_tag(name)
    \/ \E t \in Bearers, id \in TodoIds : read_todo(t, id)
    \/ \E t \in Bearers, r \in TodoRequests : create_todo(t, r)
    \/ \E t \in Bearers, rs \in BulkTodoRequests : create_todos_bulk(t, rs)
    \/ \E t \in Bearers, r \in TodoRequests, id \in TodoIds : update_todo(t, r, id)
    \/ \E t \in Bearers, id \in TodoIds : delete_todo(t, id)
    \/ \E ids \in BulkTodoIds : delete_todos_bulk(ids)
    \/ \E c \in {None, Some(TRUE)}, o \in GqlOwnerFilters : Query_todos(c, o)
    \/ \E id \in TodoIds : Query_todo(id)
    \/ \E input \in GqlTodoInputs : Mutation_create_todo(input)

SpecStore == InitUTC /\ [][NextStore]_vars

\* the two ways to log in, for accounts the provider knows, accounts
\* registered with a password and accounts that are both
NextLogin ==
    \/ \E req \in RegistrationRequests : create_user(req)
    \/ \E u \in LoginUsernames, p \in Passwords : login_for_access_token(u, p)
    \/ \E ts, us \in ProviderStatuses, h \in HexSuffixes,
           e \in ProviderEmails \cup RegisteredProviderEmails :
          google_callback(ts, us, e, h)
    \/ Advance(ACCESS_TOKEN_EXPIRE)

SpecLogin == Init /\ [][NextLogin]_vars

\* the life of the datastore sessions of concurrent requests
NextSessions ==
    \E r \in 1..MaxRequests :
        \/ get_db_enter(r)
        \/ handler_returns(r)
        \/ handler_raises(r)
        \/ get_db_exit(r)

\* a handler that was given its session returns or raises, and the framework
\* then runs the generator to its end
SpecSessions ==
    /\ Init /\ [][NextSessions]_vars
    /\ \A r \in 1..MaxRequests :
           /\ WF_vars(handler_returns(r) \/ handler_raises(r))
           /\ WF_vars(get_db_exit(r))

\* ------------------------------------------------------------ properties
\* the decoder's rule for an exp that has not passed
Unexpired(token) == token.claims.exp >= now
\* whether a stored hash was made from the password
MadeFrom(hash, password) == \E salt \in Salts : hash = bcrypt_hash(password, salt)

\* C1: a token of one kind presented where the other kind is expected is
\* rejected in both directions: get_current_user rejects every refresh token
\* the server issued and verify_refresh_token rejects every access token it
\* issued.
C1_TokenKindsRejectedBothWays ==
    \A i \in issued :
        /\ i.kind = "refresh" =>
               get_current_user(i.token).status = HTTP_401_UNAUTHORIZED
        /\ i.kind = "access" =>
               verify_refresh_token(i.token).status = HTTP_401_UNAUTHORIZED

\* C2: an access token issued at time t0 with lifetime T is accepted by
\* get_current_user at every time t < t0 + T and rejected at every time
\* t >= t0 + T, whatever the server's time-zone offset.
C2_AccessTokenLifetime ==
    \A i \in issued :
        i.kind = "access" =>
            ((get_current_user(i.token).status = HTTP_200_OK) <=> (now < i.at + i.ttl))

\* C3: authenticate_user returns the stored user exactly when the username
\* is stored and the password matches its hash, and the failure value for
\* every other pair, an account with an empty hash included; login answers
\* every such failure with 401.
C3_CredentialCheckUniform ==
    [][ \A u \in LoginUsernames, p \in Passwords :
            login_for_access_token(u, p) =>
                LET stored == UserByUsername(u)
                    a == authenticate_user(u, p)
                    matches == stored # None /\ MadeFrom(stored[1].hashed_password, p)
                IN  /\ ~a.raised
                    /\ a.value = (IF matches THEN stored ELSE None)
                    /\ ~matches => resp'.status = HTTP_401_UNAUTHORIZED ]_vars

\* C4: refresh_access_token with a valid refresh token returns a new access
\* token carrying the username and role stored now for the token's id, and a
\* new refresh token that expires 7 days after the time of the call.
C4_RefreshReadsStoreAndRenews ==
    [][ \A t \in PresentedTokens :
            (refresh_access_token(t) /\ verify_refresh_token(t).status = HTTP_200_OK) =>
                LET row == users[verify_refresh_token(t).id]
                IN  /\ resp'.status = HTTP_200_OK
                    /\ \E a \in resp'.body :
                           /\ a.claims.token_type = "access"
                           /\ a.claims.sub = row.username
                           /\ a.claims.role = row.role
                    /\ \E r \in resp'.body :
                           /\ r.claims.token_type = "refresh"
                           /\ r.claims.exp = now + REFRESH_TOKEN_EXPIRE ]_vars

\* C5 as first stated: every token that differs from an issued one, or is
\* signed with another key, is rejected by get_current_user and by
\* verify_refresh_token.
C5_EveryAlteredTokenRejected ==
    \A t \in PresentedTokens \ IssuedTokens :
        /\ get_current_user(t).status = HTTP_401_UNAUTHORIZED
        /\ verify_refresh_token(t).status = HTTP_401_UNAUTHORIZED

\* C5: a token made from an issued one by editing its payload, by signing
\* with another key, by naming another algorithm or by breaking its form is
\* rejected by get_current_user and by verify_refresh_token; a token that
\* differs from an issued one only in how its signature segment is encoded
\* is answered exactly as the issued token is.
C5_ForgeriesRejected ==
    \A t \in IssuedTokens :
        /\ \A f \in Forgeries(t) :
               /\ get_current_user(f).status = HTTP_401_UNAUTHORIZED
               /\ verify_refresh_token(f).status = HTTP_401_UNAUTHORIZED
        /\ get_current_user(Reencoded(t)) = get_current_user(t)
        /\ verify_refresh_token(Reencoded(t)) = verify_refresh_token(t)

\* an issued access token is accepted while its copy signed with another
\* key, and its copy with the role edited, have just been turned away
C5_Witness ==
    \E i \in issued :
        /\ i.kind = "access"
        /\ get_current_user(i.token).status = HTTP_200_OK
        /\ get_current_user(Reencoded(i.token)).status = HTTP_200_OK
        /\ Forgeries(i.token) # {}
        /\ resp.op = "read_current_user"
        /\ resp.status = HTTP_401_UNAUTHORIZED

\* C6: round trip.  An unexpired token made by create_access_token decodes
\* with get_current_user to exactly the username, id and role it was made
\* from, and one made by create_refresh_token decodes with
\* verify_refresh_token to exactly its username and id.
C6_RoundTrip ==
    \A i \in issued :
        Unexpired(i.token) =>
            /\ i.kind = "access" =>
                   LET g == get_current_user(i.token)
                   IN  /\ g.status = HTTP_200_OK
                       /\ g.username = i.username
                       /\ g.id = i.id
                       /\ g.user_role = i.role
            /\ i.kind = "refresh" =>
                   LET v == verify_refresh_token(i.token)
                   IN  /\ v.status = HTTP_200_OK
                       /\ v.username = i.username
                       /\ v.id = i.id

\* unexpired tokens of both kinds, an admin's among them, after a protected
\* endpoint accepted a token
C6_Witness ==
    /\ \E i \in issued :
           i.kind = "access" /\ Unexpired(i.token) /\ i.role = Some("admin")
    /\ \E i \in issued :
           i.kind = "refresh" /\ Unexpired(i.token) /\ i.id = 2
    /\ resp.op = "read_current_user" /\ resp.status = HTTP_200_OK

\* C7: the access token of a login is accepted by protected endpoints until
\* 30 minutes after issue and rejected after; the refresh token, within 7
\* days of its issue, is accepted by the refresh endpoint, and the access
\* token of the new pair is accepted in turn.
C7_SessionLifecycle ==
    \A i \in issued :
        /\ (i.kind = "access" /\ now < i.at + ACCESS_TOKEN_EXPIRE) =>
               get_current_user(i.token).status = HTTP_200_OK
        /\ (i.kind = "access" /\ now > i.at + ACCESS_TOKEN_EXPIRE) =>
               get_current_user(i.token).status = HTTP_401_UNAUTHORIZED
        /\ (i.kind = "refresh" /\ now < i.at + REFRESH_TOKEN_EXPIRE) =>
               LET v == verify_refresh_token(i.token)
               IN  /\ v.status = HTTP_200_OK
                   /\ UserById(v.id) # None
                   /\ get_current_user(TokenPair(UserById(v.id)[1]).access).status
                          = HTTP_200_OK

\* C8: a request that is rejected (400, 401 or 404) leaves the users, todos
\* and tags tables as they were, issues no token and returns none in the
\* body or as a cookie.
C8_RejectionHasNoEffect ==
    [][ resp'.status \in {HTTP_400_BAD_REQUEST, HTTP_401_UNAUTHORIZED,
                          HTTP_404_NOT_FOUND} =>
            /\ users' = users /\ todos' = todos /\ tags' = tags
            /\ issued' = issued
            /\ resp'.body = {} /\ resp'.cookies = {} ]_vars

\* a todo was not found, or a credential was turned away, with users, a
\* todo and a tag in the store and tokens in clients' hands
C8_Witness ==
    /\ resp.status \in {HTTP_401_UNAUTHORIZED, HTTP_404_NOT_FOUND}
    /\ Len(users) = 2 /\ todos # {} /\ tags # {} /\ issued # {}

\* C9: when both provider calls succeed and no stored user has the
\* provider's email, google_callback creates exactly one user, with that
\* email, a username made of the email's local part, "_" and the random
\* suffix that no stored user has, an empty hash and role "user", and sets a
\* token pair for it as cookies; when a stored user has the email, no user is
\* created and the pair is that user's.
C9_CallbackCreatesOneUser ==
    [][ \A e \in ProviderEmails, h \in HexSuffixes :
            google_callback(HTTP_200_OK, HTTP_200_OK, e, h) =>
                LET found == UserByEmail(e)
                    row == [id |-> Len(users) + 1, email |-> e,
                            username |-> SplitAt0(e) \o "_" \o h,
                            hashed_password |-> "", is_active |-> TRUE,
                            role |-> "user"]
                    user == IF found = None THEN row ELSE found[1]
                IN  /\ users' = (IF found = None THEN Append(users, row) ELSE users)
                    /\ UsersUnique(users')
                    /\ resp'.status = HTTP_302_FOUND
                    /\ {c.value : c \in resp'.cookies}
                           = {TokenPair(user).access, TokenPair(user).refresh}
      ]_vars

\* C10: when a provider call of google_callback answers with a status other
\* than 200 the flow ends with 400: the userinfo call is not made after a
\* failed code exchange, no call is made twice, no user is created and no
\* token is issued or set as a cookie.
C10_ProviderFailureEndsFlow ==
    [][ \A ts, us \in ProviderStatuses, e \in ProviderEmails, h \in HexSuffixes :
            (google_callback(ts, us, e, h) /\ (ts # HTTP_200_OK \/ us # HTTP_200_OK)) =>
                /\ resp'.status = HTTP_400_BAD_REQUEST
                /\ resp'.calls = (IF ts # HTTP_200_OK THEN <<"token">>
                                  ELSE <<"token", "userinfo">>)
                /\ users' = users /\ issued' = issued
                /\ resp'.body = {} /\ resp'.cookies = {} ]_vars

\* the code exchange failed, and (in another request) the userinfo call
\* did, with a user the callback could have logged in already stored
C10_Witness ==
    /\ resp.status = HTTP_400_BAD_REQUEST
    /\ resp.calls = <<"token">>
    /\ UserByEmail("bob@example.com") # None

\* C11: a refresh token is not invalidated by use.  In every state every
\* refresh token the server has issued, those already used and those issued
\* before newer ones included, is accepted by the refresh endpoint as long
\* as its own exp has not passed: verify_refresh_token accepts it and the
\* user it names is stored, so a further pair can be minted from it.
C11_RefreshTokenNeverRevoked ==
    \A i \in issued :
        (i.kind = "refresh" /\ Unexpired(i.token)) =>
            /\ verify_refresh_token(i.token).status = HTTP_200_OK
            /\ UserById(verify_refresh_token(i.token).id) # None

\* the refresh endpoint has just minted a pair while an older refresh token
\* of the same user, issued before the clock moved, is unexpired
C11_Witness ==
    /\ resp.op = "refresh_access_token" /\ resp.status = HTTP_200_OK
    /\ \E old, new \in issued :
           /\ old.kind = "refresh" /\ new.kind = "refresh"
           /\ old.id = new.id /\ old.at < new.at /\ new.at = now
           /\ new.token \in resp.body
           /\ Unexpired(old.token)

\* C12: whether get_current_user accepts an access token depends on the
\* token and the clock only, never on the datastore.  No step that leaves
\* the clock alone (a password change, a registration, a refresh, a write of
\* todos or tags) changes the answer to an issued access token, and after
\* every step an unexpired issued access token is accepted and yields the
\* id and role it was issued with.
C12_AccessTokenIgnoresStore ==
    [][ \A i \in issued :
            i.kind = "access" =>
                /\ now' = now =>
                       get_current_user(i.token)' = get_current_user(i.token)
                /\ Unexpired(i.token)' =>
                       /\ get_current_user(i.token)'.status = HTTP_200_OK
                       /\ get_current_user(i.token)'.id = i.id
                       /\ get_current_user(i.token)'.user_role = i.role ]_vars

\* a password was just changed, and an access token of that user issued
\* under the old password is unexpired
C12_Witness ==
    /\ resp.op = "change_password" /\ resp.status = HTTP_200_OK
    /\ \E i \in issued :
           /\ i.kind = "access" /\ Unexpired(i.token)
           /\ MadeFrom(users[i.id].hashed_password, "N3wPassw0rd")

\* C13: every refresh token the server has issued, by login, refresh or the
\* OAuth callback, carries exactly the claims sub, id, token_type and exp,
\* with token_type "refresh" and no role; every access token it has issued
\* carries exactly sub, id, role, token_type and exp, with token_type
\* "access".
C13_TokenClaimSets ==
    \A i \in issued :
        /\ i.kind = "refresh" =>
               /\ DOMAIN i.token.claims = {"sub", "id", "token_type", "exp"}
               /\ i.token.claims.token_type = "refresh"
        /\ i.kind = "access" =>
               /\ DOMAIN i.token.claims = {"sub", "id", "role", "token_type", "exp"}
               /\ i.token.claims.token_type = "access"

\* tokens of all three paths are out: the refresh endpoint has just answered
\* a user the OAuth callback created, and a user who logged in with a
\* password holds tokens too
C13_Witness ==
    /\ resp.op = "refresh_access_token" /\ resp.status = HTTP_200_OK
    /\ \E t \in resp.body :
           /\ t.claims.token_type = "refresh"
           /\ users[t.claims.id].hashed_password = ""
    /\ \E i \in issued :
           i.kind = "refresh" /\ users[i.id].hashed_password # ""

\* C14: a token signed with the process secret and unexpired whose payload
\* lacks sub, id or both is rejected with 401 by get_current_user and by
\* verify_refresh_token, and the answer holds no username and no id: nothing
\* is put in the place of the missing claim.
C14_MissingClaimRejected ==
    \A t \in ClaimlessTokens :
        Unexpired(t) =>
            /\ get_current_user(t).status = HTTP_401_UNAUTHORIZED
            /\ DOMAIN get_current_user(t) = {"status", "detail"}
            /\ verify_refresh_token(t).status = HTTP_401_UNAUTHORIZED
            /\ DOMAIN verify_refresh_token(t) = {"status", "detail"}

\* unexpired signed tokens of both kinds without sub and without id exist
\* after the refresh endpoint turned a token away with 401
C14_Witness ==
    /\ resp.op = "refresh_access_token" /\ resp.status = HTTP_401_UNAUTHORIZED
    /\ \E t, u \in ClaimlessTokens :
           /\ Unexpired(t) /\ Unexpired(u)
           /\ t.claims.token_type = "refresh" /\ "sub" \notin DOMAIN t.claims
           /\ u.claims.token_type = "access" /\ "id" \notin DOMAIN u.claims
    /\ \A i \in issued :
           i.kind = "refresh" => verify_refresh_token(i.token).status = HTTP_200_OK

\* C15: every token a verifier turns away is turned away with 401, whatever
\* is wrong with it (signature, form, expiry, kind, a missing claim): no
\* presented token gets another status than 200 or 401 from get_current_user
\* or from verify_refresh_token.  An issued token that has expired and a
\* malformed token get the same answer from get_current_user, and the same
\* answer from verify_refresh_token.
C15_RejectionsAre401 ==
    /\ \A t \in PresentedTokens \cup ClaimlessTokens :
           /\ get_current_user(t).status \in {HTTP_200_OK, HTTP_401_UNAUTHORIZED}
           /\ verify_refresh_token(t).status \in {HTTP_200_OK, HTTP_401_UNAUTHORIZED}
    /\ \A e, m \in IssuedTokens :
           ~Unexpired(e) =>
               /\ get_current_user(e) = get_current_user([m EXCEPT !.wellformed = FALSE])
               /\ verify_refresh_token(e) =
                      verify_refresh_token([m EXCEPT !.wellformed = FALSE])

\* an expired refresh token and an unexpired one are out, and the refresh
\* endpoint has just answered 401
C15_Witness ==
    /\ resp.op = "refresh_access_token" /\ resp.status = HTTP_401_UNAUTHORIZED
    /\ \E e, g \in issued :
           /\ e.kind = "refresh" /\ ~Unexpired(e.token)
           /\ g.kind = "refresh" /\ Unexpired(g.token)

\* whether a response reports a failed request: a 4xx or 5xx status, or a
\* GraphQL answer that holds an errors entry
Failed(r) == r.status >= 400 \/ \E x \in r.body : "errors" \in DOMAIN x

\* C16: after every step of registration, OAuth callback, todo creation
\* (REST single, REST bulk, GraphQL), todo update and tag creation no two
\* users share a username or an email, no two todos share a title and no two
\* tags share a name; and a request that fails leaves the users, todos and
\* tags tables as they were.
C16_UniquenessKept ==
    [][ /\ UsersUnique(users') /\ TodosUnique(todos') /\ TagsUnique(tags')
        /\ Failed(resp') => (users' = users /\ todos' = todos /\ tags' = tags)
      ]_vars

\* with two users, two todos and a tag stored, a GraphQL createTodo for a
\* title already taken has just failed
C16_Witness ==
    /\ resp.op = "Mutation.create_todo" /\ Failed(resp)
    /\ Len(users) = 2 /\ Cardinality(todos) = 2 /\ tags # {}
    /\ \E r \in todos : r.title = "Buy groceries"

\* C17: the OAuth path issues the pair the password path issues.  For a
\* stored user, the values of the cookies google_callback sets are the two
\* tokens login_for_access_token returns in its body for that user at that
\* time: an access token with the user's sub, id and role and a refresh token
\* with the user's sub and id; and each cookie's max_age (1800 s, 604800 s)
\* is the lifetime its token was made with.
C17_OAuthPairIsLoginPair ==
    [][ /\ \A u \in LoginUsernames, p \in Passwords :
               (login_for_access_token(u, p) /\ resp'.status = HTTP_200_OK) =>
                   resp'.body = {TokenPair(UserByUsername(u)[1]).access,
                                 TokenPair(UserByUsername(u)[1]).refresh}
        /\ \A e \in ProviderEmails \cup RegisteredProviderEmails, h \in HexSuffixes :
               (google_callback(HTTP_200_OK, HTTP_200_OK, e, h)
                    /\ resp'.status = HTTP_302_FOUND) =>
                   LET user == UserByEmail(e)'[1]
                   IN  /\ {c.value : c \in resp'.cookies}
                              = {TokenPair(user).access, TokenPair(user).refresh}
                       /\ \A c \in resp'.cookies :
                              /\ c.value.claims.sub = user.username
                              /\ c.value.claims.id = user.id
                              /\ c.value.claims.exp
                                     = timegm_utctimetuple(datetime_now) + c.max_age
                              /\ c.key = "access_token" =>
                                     /\ c.value.claims.token_type = "access"
                                     /\ c.value.claims.role = user.role
                                     /\ c.max_age = ACCESS_TOKEN_EXPIRE
                              /\ c.key = "refresh_token" =>
                                     /\ c.value.claims.token_type = "refresh"
                                     /\ c.max_age = REFRESH_TOKEN_EXPIRE ]_vars

\* the callback has just logged in a registered user, who holds the same
\* pair from a password login at the same time
C17_Witness ==
    /\ resp.op = "google_callback" /\ resp.status = HTTP_302_FOUND
    /\ \E c \in resp.cookies :
           /\ c.key = "access_token"
           /\ bcrypt_identify(users[c.value.claims.id].hashed_password)
           /\ c.value \in IssuedTokens

\* C18: every request that was given a datastore session by get_db has it
\* closed when the request ends, whether its handler returned or raised: a
\* request that has ended holds no open session, and a session once opened
\* is closed in the end.
C18_SessionReleased ==
    /\ [](\A r \in 1..MaxRequests :
             sessions[r].phase \in {"idle", "done"} => ~sessions[r].open)
    /\ \A r \in 1..MaxRequests : sessions[r].open ~> ~sessions[r].open

\* one request has ended, beside one whose handler has raised and one
\* whose session is still with its handler
C18_Witness ==
    /\ sessions[1].phase = "done"
    /\ sessions[2].phase = "raised"
    /\ sessions[3].phase = "yielded" /\ sessions[3].open

\* whether the token is a valid access token of the owner of the stored
\* todo with this id
OwnerPresents(token, todo_id) ==
    /\ get_current_user(token).status = HTTP_200_OK
    /\ dict_get(token.claims, "token_type") = Some("access")
    /\ \E r \in todos : r.id = todo_id /\ r.owner_id = get_current_user(token).id

\* C19: owner isolation of todos, on every todo endpoint.  read_todo shows a
\* todo, and update_todo and delete_todo change one, only for a valid access
\* token whose id is the todo's owner_id; any other request for it is
\* answered 401 or 404 and leaves the table as it was.  A request that
\* carries no token (delete_todos_bulk, the GraphQL queries) is shown no
\* todo that has an owner and deletes none.
C19_OwnerIsolation ==
    [][ /\ \A t \in Bearers, id \in TodoIds :
               /\ (read_todo(t, id) /\ ~OwnerPresents(t, id)) =>
                      resp'.status \in {HTTP_401_UNAUTHORIZED, HTTP_404_NOT_FOUND}
               /\ ((delete_todo(t, id) \/ \E q \in TodoRequests : update_todo(t, q, id))
                       /\ ~OwnerPresents(t, id)) =>
                      /\ resp'.status \in {HTTP_401_UNAUTHORIZED, HTTP_404_NOT_FOUND}
                      /\ todos' = todos
        /\ \A ids \in BulkTodoIds :
               (delete_todos_bulk(ids)
                    /\ \E r \in todos : r.id \in Range(ids) /\ r.owner_id # NullOwner) =>
                   /\ resp'.status \in {HTTP_401_UNAUTHORIZED, HTTP_404_NOT_FOUND}
                   /\ todos' = todos
        /\ \A id \in TodoIds :
               Query_todo(id) => \A x \in resp'.body : x.owner_id = NullOwner
        /\ \A c \in {None, Some(TRUE)}, o \in GqlOwnerFilters :
               Query_todos(c, o) => \A x \in resp'.body : x.owner_id = NullOwner
      ]_vars


\* whether the token is an access token the server issued whose lifetime
\* has not run out
ValidAccessToken(token) ==
    \E i \in issued : /\ i.token = token /\ i.kind = "access"
                      /\ now < i.at + i.ttl

\* C20: change_password answers 200 and replaces the stored hash only for a
\* valid access token and a current password P that matches the stored
\* hash; then the row differs from before in hashed_password alone, no other
\* row differs, login with the new password N succeeds and, when N differs
\* from P, login with P fails.  A change that is not answered 200 leaves the
\* users table as it was, so login with P goes on succeeding.
C20_ChangePasswordFrame ==
    [][ \A t \in Bearers, p, n \in Passwords :
            change_password(t, p, n) =>
                LET id == get_current_user(t).id
                IN  IF resp'.status = HTTP_200_OK
                    THEN /\ ValidAccessToken(t)
                         /\ MadeFrom(users[id].hashed_password, p)
                         /\ MadeFrom(users'[id].hashed_password, n)
                         /\ users' = [users EXCEPT ![id].hashed_password =
                                                       users'[id].hashed_password]
                         /\ authenticate_user(users[id].username, n)'.value
                                = Some(users'[id])
                         /\ n # p =>
                                authenticate_user(users[id].username, p)'.value
                                    = None
                    ELSE users' = users ]_vars


\* C21: delete_todos_bulk with the id list L answers 400 when L is empty and
\* 404 when no stored todo has an id of L, deleting nothing; otherwise it
\* answers 200, removes exactly the stored todos whose id is in L, however
\* often the id is named and whatever other ids L holds, leaves every other
\* todo as it was, and reports as its count the number of todos removed.
C21_BulkDeleteExact ==
    [][ \A L \in BulkTodoIds :
            delete_todos_bulk(L) =>
                LET named == {r \in todos : r.id \in Range(L)}
                    removed == Cardinality(todos) - Cardinality(todos')
                IN  IF L = <<>>
                    THEN resp'.status = HTTP_400_BAD_REQUEST /\ todos' = todos
                    ELSE IF named = {}
                    THEN resp'.status = HTTP_404_NOT_FOUND /\ todos' = todos
                    ELSE /\ resp'.status = HTTP_200_OK
                         /\ todos' = todos \ named
                         /\ resp'.body =
                                {[message |-> <<"Deleted", removed, "todos">>]}
      ]_vars
====
